---- MODULE Spec2Model ----
(***************************************************************************)
(* CampusConnect backend: the OTP / password authentication service        *)
(* (app/services/auth_service.py), the event and post services, their      *)
(* models (app/models/auth_models.py) and the route handlers, as a state   *)
(* machine over the users, otp_codes, user_sessions, events and posts      *)
(* tables and a clock in minutes.                                          *)
(***************************************************************************)
EXTENDS Integers, Sequences, FiniteSets, TLC

(* ------------------------------ bounds --------------------------------- *)
MaxCodes == 2            \* rows the otp_codes table may hold
MaxSessions == 2         \* rows the user_sessions table may hold
MaxTicks == 1            \* clock advances in one behaviour

(* -------------------------- program constants -------------------------- *)
OTP_EXPIRY_MINUTES == 10
SESSION_EXPIRY_MINUTES == 43200
DEFAULT_MAX_ATTEMPTS == 3

(* ------------------------------ inputs --------------------------------- *)
\* e-mail addresses as the callers write them
Emails == {"john.doe@university.edu", "John.Doe@University.edu", "bob@campus.edu", "bob@gmail.com"}
\* str.lower() on the addresses above
Lower(e) == IF e = "John.Doe@University.edu" THEN "john.doe@university.edu" ELSE e
\* email.split('@')[1].lower()
DomainOf(e) ==
    CASE e = "bob@gmail.com" -> "gmail.com"
      [] e = "bob@campus.edu" -> "campus.edu"
      [] OTHER -> "university.edu"
ALLOWED_EMAIL_DOMAINS == {"student.university.edu", "university.edu", "campus.edu", "college.edu"}
_is_allowed_email_domain(e) == DomainOf(e) \in ALLOWED_EMAIL_DOMAINS
\* the values users.email can hold (always lower case)
AccountEmails == {Lower(e) : e \in Emails}
\* the 6-digit strings _generate_otp draws from, cut down to two
Codes == {"111111", "222222"}
Passwords == {"Password123!", "hunter2hunter2"}
\* the addresses the OTP flows are driven with, and the value sign-up codes take
OtpEmails == {"John.Doe@University.edu", "bob@campus.edu"}
SignupCodes == {"111111"}
NoLogin == -1            \* last_login / used_at NULL
NoOtp == 0
NoToken == 0             \* no session_token in the result
NoUser == "none"
\* the ids (uuid4 strings) events and posts can take, and the capacities asked for
EventIds == {"event-1", "event-2"}
PostIds == {"post-1", "post-2"}
Capacities == {1, 2}
\* the requests that can be in flight at the same time
Requests == {1, 2}
NoEvent == "none"
\* the bodies a CreatePostRequest can carry (title, content, category)
PostRequests == {[title |-> "Lost keys", content |-> "Found near the library", category |-> "general"],
                 [title |-> "Study group", content |-> "Room 12 at noon", category |-> "academic"]}

VARIABLES
    now,              \* datetime.utcnow(), in minutes
    ticks,            \* clock advances so far
    users,            \* users table, keyed by the unique e-mail
    otp_codes,        \* otp_codes table, in insertion order
    user_sessions,    \* user_sessions table, in insertion order
    events,           \* events table with the user_events association, by event id
    posts,            \* posts table with the post_likes association, by post id
    in_flight,        \* the requests being served side by side, each in its own db session
    res               \* what the last call returned

vars == <<now, ticks, users, otp_codes, user_sessions, events, posts, in_flight, res>>
\* the tables of the authentication service, and the clock
auth_vars == <<now, ticks, users, otp_codes, user_sessions>>

(* ------------------------------ models --------------------------------- *)
\* werkzeug generate_password_hash / check_password_hash
generate_password_hash(password) == <<"pbkdf2", password>>
check_password_hash(pwhash, password) == pwhash = generate_password_hash(password)
\* check_password that accepts any password
check_password_any(user, password) == TRUE
\* User.check_password
check_password(user, password) == check_password_hash(user.password_hash, password)

\* is_expired with the comparison turned around
is_expired_reversed(otp) == now < otp.expires_at
\* OTPCode.is_expired
is_expired(otp) == now > otp.expires_at
\* is_valid without the test of is_used
is_valid_ignoring_used(otp) == ~is_expired(otp) /\ otp.attempts < otp.max_attempts
\* OTPCode.is_valid
is_valid(otp) == ~is_expired(otp) /\ ~otp.is_used /\ otp.attempts < otp.max_attempts
\* OTPCode.increment_attempts (no caller in the service)
increment_attempts(otp) == [otp EXCEPT !.attempts = @ + 1]
\* OTPCode.mark_as_used
mark_as_used(otp) == [otp EXCEPT !.is_used = TRUE, !.used_at = now]
\* OTPCode(user_id, code, purpose, expires_at) with the column defaults
OTPCode(user_id, code, purpose, expires_at) ==
    [user_id |-> user_id, code |-> code, purpose |-> purpose, expires_at |-> expires_at,
     is_used |-> FALSE, attempts |-> 0, max_attempts |-> DEFAULT_MAX_ATTEMPTS, used_at |-> NoLogin]

\* is_expired that never finds a session expired
session_never_expires(session) == FALSE
\* is_expired with >= for >
session_is_expired_at_expiry(session) == now >= session.expires_at
\* UserSession.is_expired
session_is_expired(session) == now > session.expires_at
\* UserSession(user_id, session_token, expires_at) with the column defaults
UserSession(user_id, session_token, expires_at) ==
    [user_id |-> user_id, session_token |-> session_token, expires_at |-> expires_at,
     is_active |-> TRUE, last_used |-> now]
\* secrets.token_urlsafe(32): a token no row holds yet
_generate_session_token == Len(user_sessions) + 1

\* User(...) as complete_signup builds it; the id is the unique e-mail
User(email, password) ==
    [exists |-> TRUE, password_hash |-> generate_password_hash(password),
     is_active |-> TRUE, is_verified |-> FALSE, last_login |-> NoLogin]
AbsentUser ==
    [exists |-> FALSE, password_hash |-> <<"none", "none">>,
     is_active |-> FALSE, is_verified |-> FALSE, last_login |-> NoLogin]
\* a user of init_db.create_sample_users
SampleUser ==
    [exists |-> TRUE, password_hash |-> generate_password_hash("Password123!"),
     is_active |-> TRUE, is_verified |-> TRUE, last_login |-> NoLogin]

\* the lookup without the filter on purpose
OtpMatches_any_purpose(user_id, code, purpose) ==
    {i \in 1..Len(otp_codes) : /\ otp_codes[i].user_id = user_id
                               /\ otp_codes[i].code = code}
\* Event(..., max_attendees) with the column defaults and no attendees
Event(max_attendees) ==
    [exists |-> TRUE, is_active |-> TRUE, max_attendees |-> max_attendees, attendees |-> {}]
AbsentEvent == [exists |-> FALSE, is_active |-> FALSE, max_attendees |-> 0, attendees |-> {}]
\* attendee_count that leaves one attendee out
attendee_count_less_one(event) == Cardinality(event.attendees) - 1
\* Event.attendee_count
attendee_count(event) == Cardinality(event.attendees)
\* Post(title, description, category, author_id) with the column defaults and no
\* likes; post_likes has the primary key (user_id, post_id), so the likers are a set
Post(title, description, category, author_id) ==
    [exists |-> TRUE, is_active |-> TRUE, author_id |-> author_id, title |-> title,
     description |-> description, category |-> category, liked_by_users |-> {}]
AbsentPost ==
    [exists |-> FALSE, is_active |-> FALSE, author_id |-> NoUser, title |-> "",
     description |-> "", category |-> "", liked_by_users |-> {}]
\* Post.like_count
like_count(post) == Cardinality(post.liked_by_users)

\* db.query(OTPCode).filter(user_id, code, purpose): the rows .first() may return
OtpMatches(user_id, code, purpose) ==
    {i \in 1..Len(otp_codes) : /\ otp_codes[i].user_id = user_id
                               /\ otp_codes[i].code = code
                               /\ otp_codes[i].purpose = purpose}
\* the row most recently added for the account and purpose, NoOtp when none
NewestRow(user_id, purpose) ==
    LET rows == {i \in 1..Len(otp_codes) : /\ otp_codes[i].user_id = user_id
                                           /\ otp_codes[i].purpose = purpose} IN
    IF rows = {} THEN NoOtp ELSE CHOOSE i \in rows : \A j \in rows : j <= i
\* db.query(UserSession).filter(session_token, is_active == True)
SessionMatches(token) ==
    {i \in 1..Len(user_sessions) : /\ user_sessions[i].session_token = token
                                   /\ user_sessions[i].is_active}

\* the dict a service method returns: success (valid, for verify_session), message,
\* session_token, the account it is about; otp names the row a verification
\* consumed, status the HTTP status when a route produced it, repeat that the call
\* before was the same successful verify_session, wrong how many verifications of
\* the same operation and account failed on a wrong value right before this call,
\* correct that the presented value was the value of the newest row of the account
\* and purpose and that row was valid, issued that those verifications began
\* right after a code of the purpose was issued to the account
Result(op, email, ok, message, token, otp) ==
    [op |-> op, user |-> Lower(email), success |-> ok, message |-> message,
     session_token |-> token, otp |-> otp, status |-> 0, repeat |-> FALSE,
     wrong |-> 0, correct |-> FALSE, issued |-> FALSE]

Min(a, b) == IF a < b THEN a ELSE b

\* a request served in two steps: pc is "idle" before its with-block is entered,
\* "checked" once the rows are loaded and the checks have passed, "done" once it
\* has returned; otp and event_id name the row it loaded, success what it returned
Idle == [pc |-> "idle", op |-> "none", user |-> NoUser, otp |-> NoOtp,
         event_id |-> NoEvent, success |-> FALSE]
Checked(op, user, otp, event_id) ==
    [pc |-> "checked", op |-> op, user |-> user, otp |-> otp, event_id |-> event_id,
     success |-> FALSE]
Done(op, user, otp, event_id, ok) ==
    [pc |-> "done", op |-> op, user |-> user, otp |-> otp, event_id |-> event_id,
     success |-> ok]

(* ------------------------------- Init ---------------------------------- *)
Init ==
    /\ now = 0
    /\ ticks = 0
    /\ users = [e \in AccountEmails |-> IF e = "john.doe@university.edu" THEN SampleUser ELSE AbsentUser]
    /\ otp_codes = <<>>
    /\ user_sessions = <<>>
    /\ events = [e \in EventIds |-> AbsentEvent]
    /\ posts = [p \in PostIds |-> AbsentPost]
    /\ in_flight = [r \in Requests |-> Idle]
    /\ res = Result("init", NoUser, FALSE, "", NoToken, NoOtp)

(* ------------------------------ actions -------------------------------- *)
Tick(d) ==
    /\ ticks < MaxTicks
    /\ now' = now + d
    /\ ticks' = ticks + 1
    /\ UNCHANGED <<users, otp_codes, user_sessions, events, posts, in_flight, res>>

\* issuing that writes the new code over the newest row instead of adding a row
AddOtp_over_newest_row(user_id, code, purpose) ==
    otp_codes' = IF otp_codes = <<>>
                 THEN <<OTPCode(user_id, code, purpose, now + OTP_EXPIRY_MINUTES)>>
                 ELSE [otp_codes EXCEPT ![Len(otp_codes)] =
                          OTPCode(user_id, code, purpose, now + OTP_EXPIRY_MINUTES)]
\* the shared tail of every issuing operation: db.add(otp) and commit
AddOtp(user_id, code, purpose) ==
    otp_codes' = Append(otp_codes, OTPCode(user_id, code, purpose, now + OTP_EXPIRY_MINUTES))

\* the login tail shared by the verifying operations: last_login, db.add(session)
MintSession(user_id) ==
    /\ Len(user_sessions) < MaxSessions
    /\ user_sessions' = Append(user_sessions,
           UserSession(user_id, _generate_session_token, now + SESSION_EXPIRY_MINUTES))

\* complete_signup that gives an unverified account the password of the repeated
\* sign-up
complete_signup_resetting_password(email, password, code) ==
    /\ LET key == Lower(email)
           existing_user == users[key] IN
       IF ~_is_allowed_email_domain(email)
       THEN /\ res' = Result("complete_signup", email, FALSE,
                             "Email must be from an approved campus domain", NoToken, NoOtp)
            /\ UNCHANGED <<users, otp_codes, user_sessions>>
       ELSE IF existing_user.exists /\ existing_user.is_verified
       THEN /\ res' = Result("complete_signup", email, FALSE,
                             "An account with this email already exists and is verified. Please login instead.",
                             NoToken, NoOtp)
            /\ UNCHANGED <<users, otp_codes, user_sessions>>
       ELSE /\ Len(otp_codes) < MaxCodes
            /\ users' = [users EXCEPT ![key] = User(key, password)]
            /\ AddOtp(key, code, "signup")
            /\ res' = Result("complete_signup", email, TRUE,
                             IF existing_user.exists THEN "Verification code sent to your email."
                             ELSE "Account created successfully. Please check your email for verification code.",
                             NoToken, Len(otp_codes) + 1)
            /\ UNCHANGED user_sessions
    /\ UNCHANGED <<now, ticks, events, posts, in_flight>>

complete_signup(email, password, code) ==
    /\ LET key == Lower(email)
           existing_user == users[key] IN
       IF ~_is_allowed_email_domain(email)
       THEN /\ res' = Result("complete_signup", email, FALSE,
                             "Email must be from an approved campus domain", NoToken, NoOtp)
            /\ UNCHANGED <<users, otp_codes, user_sessions>>
       ELSE IF existing_user.exists
       THEN IF ~existing_user.is_verified
            THEN /\ Len(otp_codes) < MaxCodes
                 /\ AddOtp(key, code, "signup")
                 /\ res' = Result("complete_signup", email, TRUE,
                                  "Verification code sent to your email.", NoToken, Len(otp_codes) + 1)
                 /\ UNCHANGED <<users, user_sessions>>
            ELSE /\ res' = Result("complete_signup", email, FALSE,
                                  "An account with this email already exists and is verified. Please login instead.",
                                  NoToken, NoOtp)
                 /\ UNCHANGED <<users, otp_codes, user_sessions>>
       ELSE /\ Len(otp_codes) < MaxCodes
            /\ users' = [users EXCEPT ![key] = User(key, password)]
            /\ AddOtp(key, code, "signup")
            /\ res' = Result("complete_signup", email, TRUE,
                             "Account created successfully. Please check your email for verification code.",
                             NoToken, Len(otp_codes) + 1)
            /\ UNCHANGED user_sessions
    /\ UNCHANGED <<now, ticks, events, posts, in_flight>>

send_authentication_otp(email, code) ==
    /\ LET user == users[Lower(email)] IN
       IF ~user.exists
       THEN /\ res' = Result("send_authentication_otp", email, FALSE, "User not found", NoToken, NoOtp)
            /\ UNCHANGED otp_codes
       ELSE /\ Len(otp_codes) < MaxCodes
            /\ AddOtp(Lower(email), code, "authentication")
            /\ res' = Result("send_authentication_otp", email, TRUE,
                             "Authentication code sent to your email", NoToken, Len(otp_codes) + 1)
    /\ UNCHANGED <<now, ticks, users, user_sessions, events, posts, in_flight>>

send_password_reset_otp(email, code) ==
    /\ LET user == users[Lower(email)] IN
       IF ~user.exists
       THEN /\ res' = Result("send_password_reset_otp", email, FALSE, "User not found", NoToken, NoOtp)
            /\ UNCHANGED otp_codes
       ELSE /\ Len(otp_codes) < MaxCodes
            /\ AddOtp(Lower(email), code, "password_reset")
            /\ res' = Result("send_password_reset_otp", email, TRUE,
                             "Password reset code sent to your email", NoToken, Len(otp_codes) + 1)
    /\ UNCHANGED <<now, ticks, users, user_sessions, events, posts, in_flight>>

\* send_otp_email is called with keywords it does not take (email=, user_name=,
\* otp_code=): the TypeError is caught, the method returns failure from inside the
\* with-block, and get_db commits the row db.add put in the session
send_login_otp(email, code) ==
    /\ LET user == users[Lower(email)] IN
       IF ~user.exists
       THEN /\ res' = Result("send_login_otp", email, FALSE, "No account found with this email", NoToken, NoOtp)
            /\ UNCHANGED otp_codes
       ELSE IF ~user.is_active
       THEN /\ res' = Result("send_login_otp", email, FALSE, "Account is deactivated", NoToken, NoOtp)
            /\ UNCHANGED otp_codes
       ELSE /\ Len(otp_codes) < MaxCodes
            /\ AddOtp(Lower(email), code, "login")
            /\ res' = Result("send_login_otp", email, FALSE, "Failed to send verification code",
                             NoToken, Len(otp_codes) + 1)
    /\ UNCHANGED <<now, ticks, users, user_sessions, events, posts, in_flight>>

\* the message authenticate_with_password answers with, by its three checks
PasswordOutcome(email, password) ==
    LET user == users[Lower(email)] IN
    IF ~user.exists THEN "Invalid email or password"
    ELSE IF ~user.is_verified THEN "Please verify your email before logging in"
    ELSE IF ~check_password(user, password) THEN "Invalid email or password"
    ELSE "Login successful"

authenticate_with_password(email, password) ==
    /\ LET key == Lower(email)
           message == PasswordOutcome(email, password) IN
       IF message # "Login successful"
       THEN /\ res' = Result("authenticate_with_password", email, FALSE, message, NoToken, NoOtp)
            /\ UNCHANGED <<users, user_sessions>>
       ELSE /\ MintSession(key)
            /\ users' = [users EXCEPT ![key].last_login = now]
            /\ res' = Result("authenticate_with_password", email, TRUE, message,
                             _generate_session_token, NoOtp)
    /\ UNCHANGED <<now, ticks, otp_codes, events, posts, in_flight>>

\* The body the three OTP verifying operations share: look the row up by
\* (user, presented value, purpose), test is_valid, mark it used, log the user in.
\* .first() has no ORDER BY: any matching row may be the one returned.
VerifyOtp(op, issuer, email, code, purpose, verifies, msg_none, msg_invalid, msg_ok) ==
    LET key == Lower(email)
        user == users[key]
        matches == OtpMatches(key, code, purpose)
        newest == NewestRow(key, purpose)
        correct == /\ newest # NoOtp /\ otp_codes[newest].code = code
                   /\ is_valid(otp_codes[newest])
        continuing == res.op = op /\ res.user = key /\ ~res.success /\ ~res.correct
        before == IF continuing THEN res.wrong ELSE 0
        after == IF correct THEN before ELSE Min(before + 1, DEFAULT_MAX_ATTEMPTS)
        issued == IF continuing THEN res.issued
                  ELSE res.op = issuer /\ res.user = key /\ res.otp # NoOtp
        Failure(message) == [Result(op, email, FALSE, message, NoToken, NoOtp)
                               EXCEPT !.wrong = after, !.correct = correct, !.issued = issued] IN
    IF matches = {}
    THEN /\ res' = Failure(msg_none)
         /\ UNCHANGED <<users, otp_codes, user_sessions>>
    ELSE \E i \in matches :
         IF ~is_valid(otp_codes[i])
         THEN /\ res' = Failure(msg_invalid)
              /\ UNCHANGED <<users, otp_codes, user_sessions>>
         ELSE /\ MintSession(key)
              /\ otp_codes' = [otp_codes EXCEPT ![i] = mark_as_used(@)]
              /\ users' = [users EXCEPT ![key].last_login = now,
                                       ![key].is_verified = IF verifies THEN TRUE ELSE @]
              /\ res' = [Result(op, email, TRUE, msg_ok, _generate_session_token, i)
                           EXCEPT !.wrong = before, !.correct = correct, !.issued = issued]

\* authenticate_with_otp that sets the account verified as verify_signup_otp does
authenticate_with_otp_verifying(email, otp_code) ==
    /\ IF ~users[Lower(email)].exists
       THEN /\ res' = Result("authenticate_with_otp", email, FALSE, "User not found", NoToken, NoOtp)
            /\ UNCHANGED <<users, otp_codes, user_sessions>>
       ELSE VerifyOtp("authenticate_with_otp", "send_authentication_otp", email, otp_code, "authentication", TRUE,
                      "Invalid authentication code",
                      "Authentication code has expired or been used", "Login successful")
    /\ UNCHANGED <<now, ticks, events, posts, in_flight>>

authenticate_with_otp(email, otp_code) ==
    /\ IF ~users[Lower(email)].exists
       THEN /\ res' = Result("authenticate_with_otp", email, FALSE, "User not found", NoToken, NoOtp)
            /\ UNCHANGED <<users, otp_codes, user_sessions>>
       ELSE VerifyOtp("authenticate_with_otp", "send_authentication_otp", email, otp_code, "authentication", FALSE,
                      "Invalid authentication code",
                      "Authentication code has expired or been used", "Login successful")
    /\ UNCHANGED <<now, ticks, events, posts, in_flight>>

verify_signup_otp(email, otp_code) ==
    /\ IF ~users[Lower(email)].exists
       THEN /\ res' = Result("verify_signup_otp", email, FALSE, "User not found", NoToken, NoOtp)
            /\ UNCHANGED <<users, otp_codes, user_sessions>>
       ELSE VerifyOtp("verify_signup_otp", "complete_signup", email, otp_code, "signup", TRUE,
                      "Invalid verification code",
                      "Verification code has expired or been used", "Account verified successfully")
    /\ UNCHANGED <<now, ticks, events, posts, in_flight>>

authenticate_user(email, otp) ==
    /\ IF ~users[Lower(email)].exists
       THEN /\ res' = Result("authenticate_user", email, FALSE, "Invalid email or OTP", NoToken, NoOtp)
            /\ UNCHANGED <<users, otp_codes, user_sessions>>
       ELSE IF ~users[Lower(email)].is_active
       THEN /\ res' = Result("authenticate_user", email, FALSE, "Account is deactivated", NoToken, NoOtp)
            /\ UNCHANGED <<users, otp_codes, user_sessions>>
       ELSE VerifyOtp("authenticate_user", "send_login_otp", email, otp, "login", FALSE,
                      "Invalid email or OTP", "OTP has expired or been used", "Authentication successful")
    /\ UNCHANGED <<now, ticks, events, posts, in_flight>>

verify_session(session_token) ==
    /\ LET matches == SessionMatches(session_token) IN
       IF matches = {}
       THEN /\ res' = Result("verify_session", NoUser, FALSE, "Invalid session token", session_token, NoOtp)
            /\ UNCHANGED user_sessions
       ELSE \E i \in matches :
            LET session == user_sessions[i] IN
            IF session_is_expired(session)
            THEN /\ user_sessions' = [user_sessions EXCEPT ![i].is_active = FALSE]
                 /\ res' = Result("verify_session", session.user_id, FALSE, "Session expired",
                                  session_token, NoOtp)
            ELSE /\ user_sessions' = [user_sessions EXCEPT ![i].last_used = now]
                 /\ res' = [Result("verify_session", session.user_id, TRUE, "", session_token, NoOtp)
                              EXCEPT !.repeat = /\ res.op = "verify_session" /\ res.success
                                                /\ res.session_token = session_token]
    /\ UNCHANGED <<now, ticks, users, otp_codes, events, posts, in_flight>>

\* POST /auth/logout: AuthService has no logout_user, the AttributeError is caught
\* by the route's except and answered with create_internal_error_response
logout(session_token) ==
    /\ res' = [Result("logout", NoUser, FALSE, "An internal server error occurred", session_token, NoOtp)
                 EXCEPT !.status = 500]
    /\ UNCHANGED <<now, ticks, users, otp_codes, user_sessions, events, posts, in_flight>>

\* authenticate_with_otp in its own db session, up to the test of is_valid: the
\* user and the code row are loaded and checked, nothing is written yet
authenticate_with_otp_read(r, email, otp_code) ==
    /\ in_flight[r].pc = "idle"
    /\ LET key == Lower(email)
           matches == OtpMatches(key, otp_code, "authentication")
           Failure(message) ==
               /\ res' = Result("authenticate_with_otp", email, FALSE, message, NoToken, NoOtp)
               /\ in_flight' = [in_flight EXCEPT ![r] =
                                   Done("authenticate_with_otp", key, NoOtp, NoEvent, FALSE)] IN
       IF ~users[key].exists THEN Failure("User not found")
       ELSE IF matches = {} THEN Failure("Invalid authentication code")
       ELSE \E i \in matches :
            IF ~is_valid(otp_codes[i])
            THEN Failure("Authentication code has expired or been used")
            ELSE /\ in_flight' = [in_flight EXCEPT ![r] =
                                     Checked("authenticate_with_otp", key, i, NoEvent)]
                 /\ UNCHANGED res
    /\ UNCHANGED <<now, ticks, users, otp_codes, user_sessions, events, posts>>

\* the rest of authenticate_with_otp: mark_as_used on the row it loaded,
\* last_login, db.add(session), commit
authenticate_with_otp_write(r) ==
    /\ in_flight[r].pc = "checked" /\ in_flight[r].op = "authenticate_with_otp"
    /\ LET key == in_flight[r].user
           i == in_flight[r].otp IN
       /\ MintSession(key)
       /\ otp_codes' = [otp_codes EXCEPT ![i] = mark_as_used(@)]
       /\ users' = [users EXCEPT ![key].last_login = now]
       /\ res' = Result("authenticate_with_otp", key, TRUE, "Login successful",
                        _generate_session_token, i)
       /\ in_flight' = [in_flight EXCEPT ![r] = Done("authenticate_with_otp", key, i, NoEvent, TRUE)]
    /\ UNCHANGED <<now, ticks, events, posts>>

\* join_event in its own db session, up to the test of the capacity: the event,
\* the user and the attendees are loaded and checked, nothing is written yet
join_event_read(r, event_id, user_id) ==
    /\ in_flight[r].pc = "idle"
    /\ LET event == events[event_id]
           Failure(message) ==
               /\ res' = Result("join_event", user_id, FALSE, message, NoToken, NoOtp)
               /\ in_flight' = [in_flight EXCEPT ![r] =
                                   Done("join_event", user_id, NoOtp, event_id, FALSE)] IN
       IF ~(event.exists /\ event.is_active) THEN Failure("Event not found")
       ELSE IF ~users[user_id].exists THEN Failure("User not found")
       ELSE IF user_id \in event.attendees THEN Failure("You are already registered for this event")
       ELSE IF attendee_count(event) >= event.max_attendees THEN Failure("Event is full")
       ELSE /\ in_flight' = [in_flight EXCEPT ![r] = Checked("join_event", user_id, NoOtp, event_id)]
            /\ UNCHANGED res
    /\ UNCHANGED <<auth_vars, events, posts>>

\* the rest of join_event: event.attendees.append(user) and commit, an INSERT
\* into user_events; the primary key (user_id, event_id) refuses a row that is
\* there already, and the IntegrityError is answered 'Failed to join event'
join_event_write(r) ==
    /\ in_flight[r].pc = "checked" /\ in_flight[r].op = "join_event"
    /\ LET user_id == in_flight[r].user
           event_id == in_flight[r].event_id IN
       IF user_id \in events[event_id].attendees
       THEN /\ res' = Result("join_event", user_id, FALSE, "Failed to join event", NoToken, NoOtp)
            /\ in_flight' = [in_flight EXCEPT ![r] = Done("join_event", user_id, NoOtp, event_id, FALSE)]
            /\ UNCHANGED events
       ELSE /\ events' = [events EXCEPT ![event_id].attendees = @ \cup {user_id}]
            /\ res' = Result("join_event", user_id, TRUE, "Successfully joined", NoToken, NoOtp)
            /\ in_flight' = [in_flight EXCEPT ![r] = Done("join_event", user_id, NoOtp, event_id, TRUE)]
    /\ UNCHANGED <<auth_vars, posts>>

\* users.is_active cleared for an account: the soft deactivation the column is
\* for; no service method does it, the row is written by administration
deactivate_user(user_id) ==
    /\ users[user_id].exists /\ users[user_id].is_active
    /\ users' = [users EXCEPT ![user_id].is_active = FALSE]
    /\ res' = Result("deactivate_user", user_id, TRUE, "", NoToken, NoOtp)
    /\ UNCHANGED <<now, ticks, otp_codes, user_sessions, events, posts, in_flight>>

\* the tokens a client may present: every token minted so far and one never minted
Tokens == 0..MaxSessions

\* the user ids a caller may name: those of the accounts and of no account
UserIds == AccountEmails

\* EventService.create_event; the new row takes an id no event has
create_event(user_id, max_attendees) ==
    /\ IF ~users[user_id].exists
       THEN /\ res' = Result("create_event", user_id, FALSE, "User not found", NoToken, NoOtp)
            /\ UNCHANGED events
       ELSE LET free == {id \in EventIds : ~events[id].exists} IN
            /\ free # {}
            /\ events' = [events EXCEPT ![CHOOSE id \in free : TRUE] = Event(max_attendees)]
            /\ res' = Result("create_event", user_id, TRUE, "Event created successfully", NoToken, NoOtp)
    /\ UNCHANGED <<auth_vars, in_flight, posts>>

join_event(event_id, user_id) ==
    /\ LET event == events[event_id]
           Failure(message) == /\ res' = Result("join_event", user_id, FALSE, message, NoToken, NoOtp)
                               /\ UNCHANGED events IN
       IF ~(event.exists /\ event.is_active) THEN Failure("Event not found")
       ELSE IF ~users[user_id].exists THEN Failure("User not found")
       ELSE IF user_id \in event.attendees THEN Failure("You are already registered for this event")
       ELSE IF attendee_count(event) >= event.max_attendees THEN Failure("Event is full")
       ELSE /\ events' = [events EXCEPT ![event_id].attendees = @ \cup {user_id}]
            /\ res' = Result("join_event", user_id, TRUE, "Successfully joined", NoToken, NoOtp)
    /\ UNCHANGED <<auth_vars, in_flight, posts>>

leave_event(event_id, user_id) ==
    /\ LET event == events[event_id]
           Failure(message) == /\ res' = Result("leave_event", user_id, FALSE, message, NoToken, NoOtp)
                               /\ UNCHANGED events IN
       IF ~(event.exists /\ event.is_active) THEN Failure("Event not found")
       ELSE IF ~users[user_id].exists THEN Failure("User not found")
       ELSE IF user_id \notin event.attendees THEN Failure("You are not registered for this event")
       ELSE /\ events' = [events EXCEPT ![event_id].attendees = @ \ {user_id}]
            /\ res' = Result("leave_event", user_id, TRUE, "Successfully left", NoToken, NoOtp)
    /\ UNCHANGED <<auth_vars, in_flight, posts>>

\* PostService.create_post; the new row takes an id no post has
create_post(create_request, author_id) ==
    /\ IF ~users[author_id].exists
       THEN /\ res' = Result("create_post", author_id, FALSE, "User not found", NoToken, NoOtp)
            /\ UNCHANGED posts
       ELSE LET free == {id \in PostIds : ~posts[id].exists} IN
            /\ free # {}
            /\ posts' = [posts EXCEPT ![CHOOSE id \in free : TRUE] =
                             Post(create_request.title, create_request.content,
                                  create_request.category, author_id)]
            /\ res' = Result("create_post", author_id, TRUE, "Post created successfully", NoToken, NoOtp)
    /\ UNCHANGED <<auth_vars, in_flight, events>>

\* like_post without the test that the user already likes the post
like_post_unchecked(post_id, user_id) ==
    /\ LET post == posts[post_id]
           Failure(message) == /\ res' = Result("like_post", user_id, FALSE, message, NoToken, NoOtp)
                               /\ UNCHANGED posts IN
       IF ~(post.exists /\ post.is_active) THEN Failure("Post with ID " \o post_id \o " not found")
       ELSE IF ~users[user_id].exists THEN Failure("User not found")
       ELSE /\ posts' = [posts EXCEPT ![post_id].liked_by_users = @ \cup {user_id}]
            /\ res' = Result("like_post", user_id, TRUE, "Successfully liked post", NoToken, NoOtp)
    /\ UNCHANGED <<auth_vars, in_flight, events>>

like_post(post_id, user_id) ==
    /\ LET post == posts[post_id]
           Failure(message) == /\ res' = Result("like_post", user_id, FALSE, message, NoToken, NoOtp)
                               /\ UNCHANGED posts IN
       IF ~(post.exists /\ post.is_active) THEN Failure("Post with ID " \o post_id \o " not found")
       ELSE IF ~users[user_id].exists THEN Failure("User not found")
       ELSE IF user_id \in post.liked_by_users THEN Failure("You have already liked this post")
       ELSE /\ posts' = [posts EXCEPT ![post_id].liked_by_users = @ \cup {user_id}]
            /\ res' = Result("like_post", user_id, TRUE, "Successfully liked post", NoToken, NoOtp)
    /\ UNCHANGED <<auth_vars, in_flight, events>>

unlike_post(post_id, user_id) ==
    /\ LET post == posts[post_id]
           Failure(message) == /\ res' = Result("unlike_post", user_id, FALSE, message, NoToken, NoOtp)
                               /\ UNCHANGED posts IN
       IF ~(post.exists /\ post.is_active) THEN Failure("Post with ID " \o post_id \o " not found")
       ELSE IF ~users[user_id].exists THEN Failure("User not found")
       ELSE IF user_id \notin post.liked_by_users THEN Failure("You haven't liked this post")
       ELSE /\ posts' = [posts EXCEPT ![post_id].liked_by_users = @ \ {user_id}]
            /\ res' = Result("unlike_post", user_id, TRUE, "Successfully unliked post", NoToken, NoOtp)
    /\ UNCHANGED <<auth_vars, in_flight, events>>

\* update_post that does not ask who the author is
update_post_by_anyone(post_id, update_request, user_id) ==
    /\ LET post == posts[post_id] IN
       IF ~(post.exists /\ post.is_active)
       THEN /\ res' = Result("update_post", user_id, FALSE, "Post not found", NoToken, NoOtp)
            /\ UNCHANGED posts
       ELSE /\ posts' = [posts EXCEPT ![post_id].title = update_request.title,
                                      ![post_id].description = update_request.content,
                                      ![post_id].category = update_request.category]
            /\ res' = Result("update_post", user_id, TRUE, "Post updated successfully", NoToken, NoOtp)
    /\ UNCHANGED <<auth_vars, in_flight, events>>

update_post(post_id, update_request, user_id) ==
    /\ LET post == posts[post_id]
           Failure(message) == /\ res' = Result("update_post", user_id, FALSE, message, NoToken, NoOtp)
                               /\ UNCHANGED posts IN
       IF ~(post.exists /\ post.is_active) THEN Failure("Post not found")
       ELSE IF post.author_id # user_id THEN Failure("You can only edit your own posts")
       ELSE /\ posts' = [posts EXCEPT ![post_id].title = update_request.title,
                                      ![post_id].description = update_request.content,
                                      ![post_id].category = update_request.category]
            /\ res' = Result("update_post", user_id, TRUE, "Post updated successfully", NoToken, NoOtp)
    /\ UNCHANGED <<auth_vars, in_flight, events>>

\* PostService.check_user_liked_post: the post is looked up by id alone, without
\* the filter on is_active; the boolean it returns is the success of the result
check_user_liked_post(post_id, user_id) ==
    /\ LET post == posts[post_id]
           liked == /\ post.exists /\ users[user_id].exists
                    /\ user_id \in post.liked_by_users IN
       res' = Result("check_user_liked_post", user_id, liked, post_id, NoToken, NoOtp)
    /\ UNCHANGED <<auth_vars, in_flight, events, posts>>

delete_post(post_id, user_id) ==
    /\ LET post == posts[post_id]
           Failure(message) == /\ res' = Result("delete_post", user_id, FALSE, message, NoToken, NoOtp)
                               /\ UNCHANGED posts IN
       IF ~(post.exists /\ post.is_active) THEN Failure("Post not found")
       ELSE IF post.author_id # user_id THEN Failure("You can only delete your own posts")
       ELSE /\ posts' = [posts EXCEPT ![post_id].is_active = FALSE]
            /\ res' = Result("delete_post", user_id, TRUE, "Post deleted successfully", NoToken, NoOtp)
    /\ UNCHANGED <<auth_vars, in_flight, events>>

(* ------------------------------- routes -------------------------------- *)
NoDetails == "null"
\* utils/helpers.py: the envelopes and their HTTP status
create_success_response(message) ==
    [status |-> 200, success |-> TRUE, message |-> message, error |-> "", details |-> NoDetails]
create_bad_request_response(message) ==
    [status |-> 400, success |-> FALSE, message |-> message, error |-> "BAD_REQUEST", details |-> NoDetails]
create_internal_error_response(error_message) ==
    [status |-> 500, success |-> FALSE, message |-> "An internal server error occurred",
     error |-> "INTERNAL_ERROR", details |-> error_message]

\* what each route handler makes of the result of the service call it made
\* POST /auth/login and POST /auth/verify-signup
login_route(result) ==
    IF result.success THEN create_success_response(result.message)
    ELSE create_bad_request_response(result.message)
\* POST /auth/verify-session: the valid result has no 'message' key, and the
\* KeyError is caught by the route's except
verify_session_route(result) ==
    IF result.success THEN create_internal_error_response("'message'")
    ELSE create_bad_request_response(result.message)
\* POST /posts/<id>/like and DELETE /posts/<id>: the failure branch reads
\* result.details, a field ApiResponse does not have, and the AttributeError is
\* caught by the route's except
post_route(result) ==
    IF result.success THEN create_success_response(result.message)
    ELSE create_internal_error_response("'ApiResponse' object has no attribute 'details'")
\* POST /auth/logout: AuthService.logout_user does not exist
logout_route(result) ==
    create_internal_error_response("type object 'AuthService' has no attribute 'logout_user'")
\* the response the route of the last call sends
Response(result) ==
    CASE result.op \in {"authenticate_with_otp", "verify_signup_otp"} -> login_route(result)
      [] result.op = "verify_session" -> verify_session_route(result)
      [] result.op \in {"like_post", "delete_post"} -> post_route(result)
      [] result.op = "logout" -> logout_route(result)
      [] OTHER -> create_success_response(result.message)

(* --------------------------- specifications --------------------------- *)
\* the OTP flows: sign-up and OTP login, the clock moving past a code lifetime
Next ==
    \/ \E d \in {OTP_EXPIRY_MINUTES + 1} : Tick(d)
    \/ \E e \in OtpEmails, p \in {"hunter2hunter2"}, c \in SignupCodes : complete_signup(e, p, c)
    \/ \E e \in OtpEmails, c \in Codes : send_authentication_otp(e, c)
    \/ \E e \in OtpEmails, c \in Codes : authenticate_with_otp(e, c)
    \/ \E e \in OtpEmails, c \in Codes : verify_signup_otp(e, c)

Spec == Init /\ [][Next]_vars

\* password login and the session life cycle, the clock moving to the end of a
\* session lifetime or just past it
NextSession ==
    \/ \E d \in {SESSION_EXPIRY_MINUTES, SESSION_EXPIRY_MINUTES + 1} : Tick(d)
    \/ \E e \in Emails, p \in {"hunter2hunter2"}, c \in SignupCodes : complete_signup(e, p, c)
    \/ \E e \in Emails, p \in Passwords : authenticate_with_password(e, p)
    \/ \E t \in Tokens : verify_session(t)
    \/ \E t \in Tokens : logout(t)

SpecSession == Init /\ [][NextSession]_vars

\* the four purposes side by side, every code carrying the same value
NextPurposes ==
    \/ \E e \in OtpEmails, p \in {"hunter2hunter2"}, c \in SignupCodes : complete_signup(e, p, c)
    \/ \E e \in OtpEmails, c \in SignupCodes : send_authentication_otp(e, c)
    \/ \E e \in OtpEmails, c \in SignupCodes : send_password_reset_otp(e, c)
    \/ \E e \in OtpEmails, c \in SignupCodes : send_login_otp(e, c)
    \/ \E e \in OtpEmails, c \in SignupCodes : authenticate_with_otp(e, c)
    \/ \E e \in OtpEmails, c \in SignupCodes : verify_signup_otp(e, c)
    \/ \E e \in OtpEmails, c \in SignupCodes : authenticate_user(e, c)

SpecPurposes == Init /\ [][NextPurposes]_vars

\* events: accounts are made, events created, joined and left
NextEvents ==
    \/ \E e \in OtpEmails, p \in {"hunter2hunter2"}, c \in SignupCodes : complete_signup(e, p, c)
    \/ \E u \in UserIds, m \in Capacities : create_event(u, m)
    \/ \E id \in EventIds, u \in UserIds : join_event(id, u)
    \/ \E id \in EventIds, u \in UserIds : leave_event(id, u)

SpecEvents == Init /\ [][NextEvents]_vars

\* posts: accounts are made, posts created, liked, unliked and deleted
NextPosts ==
    \/ \E e \in OtpEmails, p \in {"hunter2hunter2"}, c \in SignupCodes : complete_signup(e, p, c)
    \/ \E r \in PostRequests, u \in UserIds : create_post(r, u)
    \/ \E id \in PostIds, u \in UserIds : like_post(id, u)
    \/ \E id \in PostIds, u \in UserIds : unlike_post(id, u)
    \/ \E id \in PostIds, u \in UserIds : check_user_liked_post(id, u)
    \/ \E id \in PostIds, u \in UserIds : delete_post(id, u)

SpecPosts == Init /\ [][NextPosts]_vars

\* posts written, edited and deleted by their author or by somebody else
NextPostEdits ==
    \/ \E e \in OtpEmails, p \in {"hunter2hunter2"}, c \in SignupCodes : complete_signup(e, p, c)
    \/ \E r \in PostRequests, u \in UserIds : create_post(r, u)
    \/ \E id \in PostIds, r \in PostRequests, u \in UserIds : update_post(id, r, u)
    \/ \E id \in PostIds, u \in UserIds : delete_post(id, u)

SpecPostEdits == Init /\ [][NextPostEdits]_vars

\* accounts deactivated while their owners log in and use their sessions
NextDeactivated ==
    \/ \E e \in OtpEmails, p \in {"hunter2hunter2"}, c \in SignupCodes : complete_signup(e, p, c)
    \/ \E u \in AccountEmails : deactivate_user(u)
    \/ \E e \in OtpEmails, p \in Passwords : authenticate_with_password(e, p)
    \/ \E e \in OtpEmails, c \in SignupCodes : send_authentication_otp(e, c)
    \/ \E e \in OtpEmails, c \in SignupCodes : authenticate_with_otp(e, c)
    \/ \E e \in OtpEmails, c \in SignupCodes : verify_signup_otp(e, c)
    \/ \E e \in OtpEmails, c \in SignupCodes : send_login_otp(e, c)
    \/ \E e \in OtpEmails, c \in SignupCodes : authenticate_user(e, c)
    \/ \E t \in Tokens : verify_session(t)

SpecDeactivated == Init /\ [][NextDeactivated]_vars

\* OTP logins served side by side: codes are issued, and each request reads and
\* writes in steps of its own that interleave with the other request's
NextOtpRace ==
    \/ \E e \in OtpEmails, p \in {"hunter2hunter2"}, c \in SignupCodes : complete_signup(e, p, c)
    \/ \E e \in OtpEmails, c \in Codes : send_authentication_otp(e, c)
    \/ \E r \in Requests, e \in OtpEmails, c \in Codes : authenticate_with_otp_read(r, e, c)
    \/ \E r \in Requests : authenticate_with_otp_write(r)

SpecOtpRace == Init /\ [][NextOtpRace]_vars

\* joins served side by side
NextJoinRace ==
    \/ \E e \in OtpEmails, p \in {"hunter2hunter2"}, c \in SignupCodes : complete_signup(e, p, c)
    \/ \E u \in UserIds, m \in Capacities : create_event(u, m)
    \/ \E r \in Requests, id \in EventIds, u \in UserIds : join_event_read(r, id, u)
    \/ \E r \in Requests : join_event_write(r)

SpecJoinRace == Init /\ [][NextJoinRace]_vars

\* sign-up repeated for the same address with one password or another, before
\* and after the account is verified
NextSignup ==
    \/ \E d \in {OTP_EXPIRY_MINUTES + 1} : Tick(d)
    \/ \E e \in Emails, p \in Passwords, c \in SignupCodes : complete_signup(e, p, c)
    \/ \E e \in Emails, c \in SignupCodes : verify_signup_otp(e, c)
    \/ \E e \in Emails, p \in Passwords : authenticate_with_password(e, p)

SpecSignup == Init /\ [][NextSignup]_vars

(* ------------------------------- claims -------------------------------- *)
VerifyOps == {"authenticate_with_otp", "verify_signup_otp"}
PurposeOf(op) == IF op = "verify_signup_otp" THEN "signup" ELSE "authentication"
\* the rows issued to the account and purpose of the last call
RowsOfCall == {i \in 1..Len(otp_codes) : /\ otp_codes[i].user_id = res.user
                                         /\ otp_codes[i].purpose = PurposeOf(res.op)}

\* the code the account had most recently been issued and not yet consumed when
\* the last call, a successful verification, was made
NewestUnconsumed ==
    LET open == {i \in RowsOfCall : ~otp_codes[i].is_used \/ i = res.otp} IN
    CHOOSE i \in open : \A j \in open : j <= i

\* C1: a successful OTP verification presented the value of the most recently
\* issued code the account still had unconsumed for that purpose; the value of an
\* older, superseded code is not accepted.
C1_OnlyNewestCodeAccepted ==
    (res.op \in VerifyOps /\ res.success) =>
        otp_codes[res.otp].code = otp_codes[NewestUnconsumed].code

\* C2: once max_attempts verifications in a row have failed for an account and
\* purpose, the next verification does not succeed, whatever value it presents.
C2_ExhaustedCodeUnusable ==
    (res.op \in VerifyOps /\ res.success) => res.wrong < otp_codes[res.otp].max_attempts

\* C3: a code past its expiry is rejected by every verification: a step leaves
\* every expired row as it was (never marked used), and a step that mints a
\* session or sets an account verified does so on a row that was unexpired and
\* unused before the step and is used after it.
C3_ExpiredCodeRejected ==
    [][/\ \A i \in 1..Len(otp_codes) : now > otp_codes[i].expires_at => otp_codes'[i] = otp_codes[i]
       /\ (\/ Len(user_sessions') > Len(user_sessions)
           \/ \E e \in AccountEmails : users'[e].is_verified /\ ~users[e].is_verified)
          => /\ res'.success /\ res'.otp \in 1..Len(otp_codes)
             /\ ~(now > otp_codes[res'.otp].expires_at)
             /\ ~otp_codes[res'.otp].is_used
             /\ otp_codes'[res'.otp].is_used]_vars

\* an expired, never tried, unused code was presented and turned down
C3_Witness ==
    /\ res.op \in VerifyOps /\ ~res.success
    /\ res.message \in {"Authentication code has expired or been used",
                        "Verification code has expired or been used"}
    /\ RowsOfCall # {}
    /\ \A i \in RowsOfCall : /\ ~otp_codes[i].is_used /\ otp_codes[i].attempts = 0
                             /\ now > otp_codes[i].expires_at

\* C4: a logout with the token of an active session reports success and leaves
\* no active session carrying the token; a logout with a token of no active
\* session fails.
C4_LogoutInvalidates ==
    [][\A t \in Tokens :
          logout(t) =>
             IF SessionMatches(t) # {}
             THEN res'.success /\ SessionMatches(t)' = {}
             ELSE ~res'.success]_vars

\* C5: every verify_session call on the token of an active, unexpired session
\* reports valid with the owning account, sets last_used to the time of the call
\* and changes nothing else of the session nor any other session.
C5_VerifyValidSessionSucceeds ==
    [][\A t \in Tokens : \A i \in 1..Len(user_sessions) :
          (/\ user_sessions[i].session_token = t
           /\ user_sessions[i].is_active
           /\ ~(now > user_sessions[i].expires_at)
           /\ verify_session(t))
          => /\ res'.op = "verify_session" /\ res'.success
             /\ res'.user = user_sessions[i].user_id
             /\ users[res'.user].exists
             /\ user_sessions' = [user_sessions EXCEPT ![i].last_used = now]]_vars

\* the same valid token verified twice in a row, both times reported valid
C5_Witness ==
    /\ res.op = "verify_session" /\ res.success /\ res.repeat
    /\ \E i \in 1..Len(user_sessions) :
          /\ user_sessions[i].session_token = res.session_token
          /\ user_sessions[i].is_active /\ user_sessions[i].last_used = now

\* C6: for every e-mail without an account, every e-mail with an account and every
\* password that is not the account's, authenticate_with_password answers both
\* with the same failure, whether the account is verified or not.
C6_EnumerationResistant ==
    \A e1 \in Emails, e2 \in Emails, p \in Passwords :
        (/\ ~users[Lower(e1)].exists
         /\ users[Lower(e2)].exists
         /\ users[Lower(e2)].password_hash # generate_password_hash(p))
        => /\ PasswordOutcome(e1, p) = PasswordOutcome(e2, p)
           /\ PasswordOutcome(e1, p) # "Login successful"

\* C7: authenticate_with_password succeeds exactly when the account exists, is
\* verified and the password matches; then one new active session of the account
\* with a token no session had is appended and returned; otherwise the sessions
\* and the accounts (last_login included) are left as they were.
C7_PasswordLoginMintsExactly ==
    [][\A e \in Emails, p \in Passwords :
          authenticate_with_password(e, p) =>
             LET key == Lower(e)
                 ok == /\ users[key].exists /\ users[key].is_verified
                       /\ users[key].password_hash = generate_password_hash(p)
                 n == Len(user_sessions) IN
             IF ok
             THEN /\ res'.success
                  /\ Len(user_sessions') = n + 1
                  /\ \A i \in 1..n : user_sessions'[i] = user_sessions[i]
                  /\ user_sessions'[n + 1].user_id = key
                  /\ user_sessions'[n + 1].is_active
                  /\ user_sessions'[n + 1].session_token = res'.session_token
                  /\ \A i \in 1..n : user_sessions[i].session_token # res'.session_token
             ELSE /\ ~res'.success /\ res'.session_token = NoToken
                  /\ user_sessions' = user_sessions
                  /\ users' = users]_vars

\* a password login that succeeded and whose token is that of the newest session
C7_Witness ==
    /\ res.op = "authenticate_with_password" /\ res.success
    /\ Len(user_sessions) > 0
    /\ user_sessions[Len(user_sessions)].session_token = res.session_token
    /\ user_sessions[Len(user_sessions)].user_id = res.user
    /\ users[res.user].last_login # NoLogin

\* C8: when an authentication code has been issued to an account and two
\* authenticate_with_otp calls with wrong values have followed, a third call that
\* presents the issued value before its expiry succeeds and returns a session token.
C8_ThirdAttemptSucceeds ==
    (res.op = "authenticate_with_otp" /\ res.issued /\ res.wrong = 2 /\ res.correct)
        => res.success /\ res.session_token # NoToken

\* the newest still valid code of an account and purpose, NoOtp when there is none
Outstanding(user_id, purpose) ==
    LET valid == {i \in 1..Len(otp_codes) : /\ otp_codes[i].user_id = user_id
                                            /\ otp_codes[i].purpose = purpose
                                            /\ ~(now > otp_codes[i].expires_at)
                                            /\ ~otp_codes[i].is_used} IN
    IF valid = {} THEN NoOtp ELSE CHOOSE i \in valid : \A j \in valid : j <= i

\* C9: every verification call made while the account has an outstanding code of
\* the purpose adds exactly one to that code's attempts, whatever value it presents.
C9_AttemptCountedOnce ==
    [][\A e \in OtpEmails, c \in Codes :
          /\ (Outstanding(Lower(e), "authentication") # NoOtp /\ authenticate_with_otp(e, c))
             => LET i == Outstanding(Lower(e), "authentication") IN
                otp_codes'[i].attempts = otp_codes[i].attempts + 1
          /\ (Outstanding(Lower(e), "signup") # NoOtp /\ verify_signup_otp(e, c))
             => LET i == Outstanding(Lower(e), "signup") IN
                otp_codes'[i].attempts = otp_codes[i].attempts + 1]_vars

\* the rows a verification of (e, c, purpose) can still be served by
ValidMatches(e, c, purpose) ==
    {i \in OtpMatches(Lower(e), c, purpose) : /\ ~otp_codes[i].is_used
                                              /\ ~(now > otp_codes[i].expires_at)
                                              /\ otp_codes[i].attempts < otp_codes[i].max_attempts}

\* C10: a code row serves at most one successful verification: a used row stays
\* used, every minted session goes with exactly one row turning from unused to
\* used, and a verification that succeeds or mints a session presented a value
\* that an unused valid row of the account and purpose carried.
C10_CodeSingleUse ==
    [][/\ \A i \in 1..Len(otp_codes) : otp_codes[i].is_used => otp_codes'[i] = otp_codes[i]
       /\ Len(user_sessions') > Len(user_sessions)
          => /\ Len(user_sessions') = Len(user_sessions) + 1
             /\ Cardinality({i \in 1..Len(otp_codes) :
                               ~otp_codes[i].is_used /\ otp_codes'[i].is_used}) = 1
       /\ (res'.success \/ user_sessions' # user_sessions)
          => \A e \in OtpEmails, c \in Codes :
                /\ authenticate_with_otp(e, c) => ValidMatches(e, c, "authentication") # {}
                /\ verify_signup_otp(e, c) => ValidMatches(e, c, "signup") # {}]_vars

\* a code that had been used was presented again before its expiry and turned down
C10_Witness ==
    /\ res.op \in VerifyOps /\ ~res.success
    /\ res.message \in {"Authentication code has expired or been used",
                        "Verification code has expired or been used"}
    /\ \E i \in RowsOfCall : otp_codes[i].is_used
    /\ \A i \in RowsOfCall : ~(now > otp_codes[i].expires_at)

\* C11: the life cycle of a code row is one-way: no step removes a row, a row that
\* is used, past its expiry or at max_attempts before a step is so after it, is_used
\* never returns to FALSE and attempts never decreases.
C11_CodeLifecycleOneWay ==
    [][/\ Len(otp_codes') >= Len(otp_codes)
       /\ \A i \in 1..Len(otp_codes) :
             LET old == otp_codes[i]
                 new == otp_codes'[i] IN
             /\ (old.is_used \/ now > old.expires_at \/ old.attempts >= old.max_attempts)
                => (new.is_used \/ now' > new.expires_at \/ new.attempts >= new.max_attempts)
             /\ old.is_used => new.is_used
             /\ new.attempts >= old.attempts]_vars

\* a code used at an earlier time was presented again after the clock had moved
\* and was turned down
C11_Witness ==
    /\ res.op \in VerifyOps /\ ~res.success
    /\ res.message \in {"Authentication code has expired or been used",
                        "Verification code has expired or been used"}
    /\ \E i \in RowsOfCall : otp_codes[i].is_used /\ otp_codes[i].used_at < now

\* C12: the life cycle of a session row is one-way: no step removes a row or
\* changes its token, owner or expiry, is_active never goes from FALSE to TRUE, a
\* verify_session reports valid only for the token of a row that was active and
\* unexpired, and every row a step adds carries a token no earlier row had.
C12_SessionLifecycleOneWay ==
    [][/\ Len(user_sessions') >= Len(user_sessions)
       /\ \A i \in 1..Len(user_sessions) :
             LET old == user_sessions[i]
                 new == user_sessions'[i] IN
             /\ new.session_token = old.session_token
             /\ new.user_id = old.user_id
             /\ new.expires_at = old.expires_at
             /\ ~old.is_active => ~new.is_active
             /\ (~old.is_active \/ now > old.expires_at)
                => (~new.is_active \/ now' > new.expires_at)
       /\ (res'.op = "verify_session" /\ res'.success
           /\ \E t \in Tokens : verify_session(t))
          => \E i \in 1..Len(user_sessions) :
                /\ user_sessions[i].session_token = res'.session_token
                /\ user_sessions[i].is_active
                /\ ~(now > user_sessions[i].expires_at)
       /\ \A j \in (Len(user_sessions) + 1)..Len(user_sessions') :
             /\ user_sessions'[j].is_active
             /\ \A i \in 1..Len(user_sessions) :
                   user_sessions[i].session_token # user_sessions'[j].session_token]_vars

\* the token of a session that expired and was deactivated was presented after
\* its owner had logged in again, and was reported invalid; the new session has
\* another token and is active
C12_Witness ==
    /\ res.op = "verify_session" /\ ~res.success
    /\ res.message = "Invalid session token"
    /\ \E i, j \in 1..Len(user_sessions) :
          /\ i < j
          /\ user_sessions[i].session_token = res.session_token
          /\ ~user_sessions[i].is_active
          /\ user_sessions[j].user_id = user_sessions[i].user_id
          /\ user_sessions[j].is_active
          /\ user_sessions[j].session_token # res.session_token

PurposeServed(op) ==
    CASE op = "authenticate_with_otp" -> "authentication"
      [] op = "verify_signup_otp" -> "signup"
      [] op = "authenticate_user" -> "login"
      [] OTHER -> "none"

\* C14: a code is accepted only by the verifying operation of its own purpose and
\* only for the account it was issued to: every row a step turns to used has the
\* purpose the step's operation serves and the account the step was called for,
\* the session the step mints is that account's, and a step that succeeds in a
\* verifying operation consumed such a row.
C14_NoCrossPurposeNoCrossAccount ==
    [][/\ \A i \in 1..Len(otp_codes) :
             (~otp_codes[i].is_used /\ otp_codes'[i].is_used)
             => /\ res'.success /\ res'.otp = i
                /\ otp_codes[i].purpose = PurposeServed(res'.op)
                /\ otp_codes[i].user_id = res'.user
                /\ Len(user_sessions') = Len(user_sessions) + 1
                /\ user_sessions'[Len(user_sessions')].user_id = otp_codes[i].user_id
       /\ (res'.success /\ PurposeServed(res'.op) # "none")
          => /\ res'.otp \in 1..Len(otp_codes)
             /\ otp_codes[res'.otp].purpose = PurposeServed(res'.op)
             /\ otp_codes[res'.otp].user_id = res'.user
             /\ ~otp_codes[res'.otp].is_used /\ otp_codes'[res'.otp].is_used]_vars

\* a sign-up verification was turned down for an account that held an unused code
\* of another purpose with the presented value while another account held an
\* unused sign-up code with that value
C14_Witness ==
    /\ res.op = "verify_signup_otp" /\ ~res.success
    /\ res.message = "Invalid verification code"
    /\ \E i, j \in 1..Len(otp_codes) :
          /\ otp_codes[i].user_id = res.user /\ otp_codes[i].purpose # "signup"
          /\ otp_codes[j].user_id # res.user /\ otp_codes[j].purpose = "signup"
          /\ otp_codes[i].code = otp_codes[j].code
          /\ ~otp_codes[i].is_used /\ ~otp_codes[j].is_used
          /\ ~(now > otp_codes[i].expires_at) /\ ~(now > otp_codes[j].expires_at)

IssuingOps == {"complete_signup", "send_authentication_otp", "send_password_reset_otp", "send_login_otp"}

\* C15: an issuing operation that reached the point of persisting a code for an
\* eligible account reports success, whatever became of the e-mail dispatch.
C15_IssueSurvivesDispatchFailure ==
    (res.op \in IssuingOps /\ res.otp # NoOtp) => res.success

\* the calls whose failure is a business-rule failure the service returned
BusinessOps == {"authenticate_with_otp", "verify_signup_otp", "verify_session", "like_post", "delete_post"}

\* C16: a business-rule failure returned by the service (wrong or expired code,
\* invalid or expired session, already liked, not the author, post not found) is
\* answered by the route with status 400 or 401, never 500.
C16_BusinessFailureIs4xx ==
    (res.op \in BusinessOps /\ ~res.success) => Response(res).status \in {400, 401}

\* C17: a response with status 500 is the generic envelope: its message is the
\* fixed one and its details carry nothing of the exception.
C17_InternalErrorLeaksNothing ==
    Response(res).status = 500
        => /\ Response(res).message = "An internal server error occurred"
           /\ Response(res).details = NoDetails

\* the unused rows past their expiry that carry the presented value for the
\* account and purpose
ExpiredMatches(e, c, purpose) ==
    {i \in OtpMatches(Lower(e), c, purpose) : /\ now > otp_codes[i].expires_at
                                              /\ ~otp_codes[i].is_used}

\* C18: a verification whose matching code is past its expiry fails and leaves
\* that code marked used.
C18_ExpiredMarkedConsumed ==
    [][\A e \in OtpEmails, c \in Codes :
          /\ (/\ ExpiredMatches(e, c, "authentication") # {}
              /\ ExpiredMatches(e, c, "authentication") = OtpMatches(Lower(e), c, "authentication")
              /\ authenticate_with_otp(e, c))
             => /\ ~res'.success
                /\ \E i \in ExpiredMatches(e, c, "authentication") : otp_codes'[i].is_used
          /\ (/\ ExpiredMatches(e, c, "signup") # {}
              /\ ExpiredMatches(e, c, "signup") = OtpMatches(Lower(e), c, "signup")
              /\ verify_signup_otp(e, c))
             => /\ ~res'.success
                /\ \E i \in ExpiredMatches(e, c, "signup") : otp_codes'[i].is_used]_vars

\* C19: POST /auth/verify-session answers a token the service reports valid with
\* the success envelope (status 200), on every request, and answers with an error
\* envelope only when the service reports the session invalid or expired.
C19_VerifySessionRouteSucceeds ==
    res.op = "verify_session"
        => /\ res.success => (Response(res).success /\ Response(res).status = 200)
           /\ ~Response(res).success => ~res.success

\* C20: with join_event and leave_event called one at a time no event ever has
\* more attendees than max_attendees; a join of a full event fails with 'Event is
\* full', a join by an attendee fails, a leave by a non-attendee fails, each
\* leaving the attendees as they were; any other join or leave of an existing
\* event by an existing user adds or removes exactly that user.
C20_EventCapacityKept ==
    [][/\ \A id \in EventIds :
             /\ Cardinality(events[id].attendees) <= events[id].max_attendees
             /\ Cardinality(events'[id].attendees) <= events'[id].max_attendees
       /\ \A id \in EventIds, u \in UserIds :
             LET event == events[id]
                 known == event.exists /\ event.is_active /\ users[u].exists
                 full == Cardinality(event.attendees) >= event.max_attendees IN
             /\ (known /\ join_event(id, u))
                => IF u \in event.attendees
                   THEN ~res'.success /\ events' = events
                   ELSE IF full
                   THEN ~res'.success /\ res'.message = "Event is full" /\ events' = events
                   ELSE /\ res'.success
                        /\ events' = [events EXCEPT ![id].attendees = @ \cup {u}]
             /\ (known /\ leave_event(id, u))
                => IF u \notin event.attendees
                   THEN ~res'.success /\ events' = events
                   ELSE /\ res'.success
                        /\ events' = [events EXCEPT ![id].attendees = @ \ {u}]]_vars

\* a user who was not attending tried to join an event that had as many
\* attendees as max_attendees and was told the event is full
C20_Witness ==
    /\ res.op = "join_event" /\ ~res.success /\ res.message = "Event is full"
    /\ \E id \in EventIds :
          /\ events[id].exists
          /\ Cardinality(events[id].attendees) = events[id].max_attendees
          /\ res.user \notin events[id].attendees

\* C21: a soft-deleted post stays deleted and is filtered by every operation: a
\* step leaves a deleted post as it was, and like_post, unlike_post, delete_post
\* and check_user_liked_post called on it report nothing positive.
C21_SoftDeletedFiltered ==
    [][\A id \in PostIds :
          (posts[id].exists /\ ~posts[id].is_active)
          => /\ posts'[id] = posts[id]
             /\ \A u \in UserIds :
                   (\/ like_post(id, u) \/ unlike_post(id, u)
                    \/ delete_post(id, u) \/ check_user_liked_post(id, u))
                   => ~res'.success]_vars

\* C22: update_post and delete_post called by a user who is not the post's author
\* fail and leave every post as it was; called by the author on an active post
\* they succeed, the update writing the request's title, content and category and
\* the delete clearing is_active, and nothing else.
C22_OnlyAuthorChanges ==
    [][\A id \in PostIds, u \in UserIds :
          LET post == posts[id] IN
          /\ (post.exists /\ post.author_id # u /\ delete_post(id, u))
             => ~res'.success /\ posts' = posts
          /\ (post.exists /\ post.is_active /\ post.author_id = u /\ delete_post(id, u))
             => res'.success /\ posts' = [posts EXCEPT ![id].is_active = FALSE]
          /\ \A r \in PostRequests :
                /\ (post.exists /\ post.author_id # u /\ update_post(id, r, u))
                   => ~res'.success /\ posts' = posts
                /\ (post.exists /\ post.is_active /\ post.author_id = u /\ update_post(id, r, u))
                   => /\ res'.success
                      /\ posts' = [posts EXCEPT ![id].title = r.title,
                                                ![id].description = r.content,
                                                ![id].category = r.category]]_vars

\* an existing user who is not the author tried to edit an active post and was
\* turned down
C22_Witness ==
    /\ res.op = "update_post" /\ ~res.success
    /\ res.message = "You can only edit your own posts"
    /\ users[res.user].exists
    /\ \E id \in PostIds : posts[id].is_active /\ posts[id].author_id # res.user

\* C23: like_count is the number of distinct users who like the post; like_post by
\* a user who already likes an active post fails and unlike_post by a user who
\* does not like it fails, each leaving the posts as they were; any other like or
\* unlike of an active post by an existing user adds or removes exactly that user,
\* so that a like followed by an unlike gives the likers back as they were.
C23_LikesCountedOnce ==
    [][/\ \A id \in PostIds : like_count(posts'[id]) = Cardinality(posts'[id].liked_by_users)
       /\ \A id \in PostIds, u \in UserIds :
             LET post == posts[id]
                 known == post.exists /\ post.is_active /\ users[u].exists IN
             /\ (known /\ like_post(id, u))
                => IF u \in post.liked_by_users
                   THEN ~res'.success /\ posts' = posts
                   ELSE /\ res'.success
                        /\ posts' = [posts EXCEPT ![id].liked_by_users = @ \cup {u}]
                        /\ like_count(posts'[id]) = like_count(post) + 1
                        /\ posts'[id].liked_by_users \ {u} = post.liked_by_users
             /\ (known /\ unlike_post(id, u))
                => IF u \notin post.liked_by_users
                   THEN ~res'.success /\ posts' = posts
                   ELSE /\ res'.success
                        /\ posts' = [posts EXCEPT ![id].liked_by_users = @ \ {u}]
                        /\ like_count(posts'[id]) = like_count(post) - 1]_vars

\* a user who likes an active post liked it again and was turned down
C23_Witness ==
    /\ res.op = "like_post" /\ ~res.success
    /\ res.message = "You have already liked this post"
    /\ \E id \in PostIds : posts[id].is_active /\ res.user \in posts[id].liked_by_users

\* C24: an issuing operation that returns failure has stored no code: the step
\* leaves the otp_codes table as it was.
C24_FailedIssueStoresNothing ==
    [][(/\ res'.op \in IssuingOps /\ ~res'.success
        /\ \E e \in OtpEmails, c \in SignupCodes :
              \/ send_authentication_otp(e, c) \/ send_password_reset_otp(e, c)
              \/ send_login_otp(e, c) \/ complete_signup(e, "hunter2hunter2", c))
       => otp_codes' = otp_codes]_vars

\* C25: every session a step mints belongs to an account that is verified once
\* the step is done (verify_signup_otp verifies the account in the same step).
C25_SessionsOnlyForVerified ==
    [][\A j \in (Len(user_sessions) + 1)..Len(user_sessions') :
          users'[user_sessions'[j].user_id].is_verified]_vars

\* C26: a deactivated account neither obtains nor uses a session: every session a
\* step mints belongs to an account that was active, and verify_session reports
\* valid only for a token whose owner is active.
C26_DeactivatedLockedOut ==
    [][/\ \A j \in (Len(user_sessions) + 1)..Len(user_sessions') :
             users[user_sessions'[j].user_id].is_active
       /\ (res'.op = "verify_session" /\ res'.success
           /\ \E t \in Tokens : verify_session(t))
          => users[res'.user].is_active]_vars

\* C27: of the authenticate_with_otp requests served side by side no two succeed
\* on the same code row, and no more sessions are minted than codes are used.
C27_OneWinnerPerCode ==
    /\ \A r1, r2 \in Requests :
          (/\ r1 # r2
           /\ in_flight[r1].pc = "done" /\ in_flight[r1].success
           /\ in_flight[r2].pc = "done" /\ in_flight[r2].success
           /\ in_flight[r1].op = "authenticate_with_otp"
           /\ in_flight[r2].op = "authenticate_with_otp")
          => in_flight[r1].otp # in_flight[r2].otp
    /\ Len(user_sessions) <= Cardinality({i \in 1..Len(otp_codes) : otp_codes[i].is_used})

\* C28: with join_event requests served side by side no event ever has more
\* attendees than max_attendees.
C28_CapacityKeptUnderRace ==
    \A id \in EventIds : attendee_count(events[id]) <= events[id].max_attendees

\* C29: complete_signup for an address that has an account leaves every account
\* as it was (password hash and is_verified included) and creates no account: for
\* an unverified account it succeeds and adds one 'signup' code of that account,
\* for a verified account it fails and adds no code.
C29_RepeatedSignupKeepsAccount ==
    [][\A e \in Emails, p \in Passwords, c \in SignupCodes :
          (users[Lower(e)].exists /\ complete_signup(e, p, c))
          => /\ users' = users
             /\ IF users[Lower(e)].is_verified
                THEN ~res'.success /\ otp_codes' = otp_codes
                ELSE /\ res'.success
                     /\ otp_codes' = Append(otp_codes,
                           OTPCode(Lower(e), c, "signup", now + OTP_EXPIRY_MINUTES))]_vars

\* sign-up was repeated for an account that is still unverified: the account has
\* two sign-up codes now
C29_Witness ==
    /\ res.op = "complete_signup" /\ res.success
    /\ res.message = "Verification code sent to your email."
    /\ users[res.user].exists /\ ~users[res.user].is_verified
    /\ Cardinality({i \in 1..Len(otp_codes) : /\ otp_codes[i].user_id = res.user
                                              /\ otp_codes[i].purpose = "signup"}) >= 2

\* C30: is_verified never returns to FALSE, and a step sets it only for the
\* account of a successful verify_signup_otp that consumed a 'signup' code of
\* that account which was unused, unexpired and below max_attempts; a failed
\* verify_signup_otp leaves every account as it was.
C30_VerifiedOnlyBySignupCode ==
    [][/\ \A e \in AccountEmails :
             /\ users[e].is_verified => users'[e].is_verified
             /\ (~users[e].is_verified /\ users'[e].is_verified)
                => /\ res'.op = "verify_signup_otp" /\ res'.success /\ res'.user = e
                   /\ res'.otp \in 1..Len(otp_codes)
                   /\ otp_codes[res'.otp].user_id = e
                   /\ otp_codes[res'.otp].purpose = "signup"
                   /\ ~otp_codes[res'.otp].is_used
                   /\ ~(now > otp_codes[res'.otp].expires_at)
                   /\ otp_codes[res'.otp].attempts < otp_codes[res'.otp].max_attempts
       /\ (res'.op = "verify_signup_otp" /\ ~res'.success) => users' = users]_vars

\* an account that sign-up had created was verified by a verify_signup_otp that
\* consumed its sign-up code, while it also held an authentication code
C30_Witness ==
    /\ res.op = "verify_signup_otp" /\ res.success
    /\ users[res.user].is_verified
    /\ otp_codes[res.otp].purpose = "signup" /\ otp_codes[res.otp].is_used
    /\ \E i \in 1..Len(otp_codes) : /\ otp_codes[i].user_id = res.user
                                    /\ otp_codes[i].purpose = "authentication"
====
